---------------------------- MODULE Spec2Model ----------------------------
(***************************************************************************)
(* A model of FetchJsonRpc (src/source/index.ts): the JSON-RPC channel     *)
(* (remoteProcedureCall), the error normalizer (extractErrorMessage), and  *)
(* the submit -> poll -> outcome pipeline of executeTransaction.           *)
(*                                                                         *)
(* Text values are sequences of one-character strings, so that substr,     *)
(* startsWith, parseInt and hex decoding are computed and not assumed.     *)
(***************************************************************************)
EXTENDS Integers, Sequences, FiniteSets, TLC

(***************************************************************************)
(* JavaScript values                                                       *)
(***************************************************************************)

\* `null` and `undefined` of an optional numeric field (bigint | null, ?:).
Null == -1
Undefined == -2

\* A JavaScript number that is only ever used as a string position: values
\* at or above Huge are all past the end of every text of the model, and
\* substr treats them alike, so the magnitude saturates there.
Huge == 100000

NaN == [nan |-> TRUE, v |-> 0]

Num(n) == [nan |-> FALSE, v |-> n]

Clamp(n) == IF n > Huge THEN Huge ELSE IF n < -Huge THEN -Huge ELSE n

\* a * k and a + k on numbers; NaN is absorbing.
NumTimes(a, k) == IF a.nan THEN NaN ELSE Num(Clamp(a.v * k))

NumPlus(a, k) == IF a.nan THEN NaN ELSE Num(Clamp(a.v + k))

\* ToIntegerOrInfinity: NaN becomes 0.
ToInteger(a) == IF a.nan THEN 0 ELSE a.v

Min2(a, b) == IF a < b THEN a ELSE b

Max2(a, b) == IF a > b THEN a ELSE b

(***************************************************************************)
(* String.prototype.substr / startsWith                                    *)
(***************************************************************************)

\* s.substr(start, length): a negative start counts from the end, the
\* length is clamped to [0, size], the result stops at the end of s.
substr(s, start, length) ==
  LET size == Len(s)
      st0 == ToInteger(start)
      st == IF st0 < 0 THEN Max2(size + st0, 0) ELSE Min2(st0, size)
      ln == Min2(Max2(ToInteger(length), 0), size)
      end == Min2(st + ln, size)
  IN  IF st >= end THEN << >> ELSE SubSeq(s, st + 1, end)

\* s.substr(start): to the end of s.
substrFrom(s, start) == substr(s, start, Num(Len(s)))

startsWith(s, prefix) ==
  /\ Len(s) >= Len(prefix)
  /\ SubSeq(s, 1, Len(prefix)) = prefix

(***************************************************************************)
(* Number.parseInt(text, 16)                                               *)
(***************************************************************************)

HexLower == << "0", "1", "2", "3", "4", "5", "6", "7",
               "8", "9", "a", "b", "c", "d", "e", "f" >>

HexUpper == << "0", "1", "2", "3", "4", "5", "6", "7",
               "8", "9", "A", "B", "C", "D", "E", "F" >>

IsHexDigit(c) == \E i \in 1..16 : HexLower[i] = c \/ HexUpper[i] = c

HexDigitValue(c) == (CHOOSE i \in 1..16 : HexLower[i] = c \/ HexUpper[i] = c) - 1

WhiteSpace == { " ", "\t", "\n", "\r" }

\* Index of the first character of s at or after i that is not white space.
RECURSIVE SkipWhiteSpace(_, _)
SkipWhiteSpace(s, i) ==
  IF i <= Len(s) /\ s[i] \in WhiteSpace THEN SkipWhiteSpace(s, i + 1) ELSE i

\* The index of the last character of the run of hex digits of s that
\* starts at i (i - 1 when s[i] is no hex digit).
HexRunEnd(s, i) ==
  LET stops == { k \in i..Len(s) : ~IsHexDigit(s[k]) }
  IN  IF stops = {} THEN Len(s)
      ELSE (CHOOSE m \in stops : \A n \in stops : m <= n) - 1

Pow16 == << 1, 16, 256, 4096, 65536 >>

\* The value of the hex digits s[i..j], NaN when there are none.  A run
\* with more than five significant digits is at least 16^5 > Huge.
HexRun(s, i, j) ==
  IF j < i THEN NaN
  ELSE
    LET significant == { k \in i..j : s[k] # "0" }
        z == IF significant = {} THEN j + 1
             ELSE CHOOSE m \in significant : \A n \in significant : m <= n
        Term(k) == IF k >= z THEN HexDigitValue(s[k]) * Pow16[j - k + 1] ELSE 0
    IN  IF j - z + 1 > Len(Pow16) THEN Num(Huge)
        ELSE Num(Clamp(Term(j) + Term(j - 1) + Term(j - 2) + Term(j - 3) + Term(j - 4)))

\* parseInt(s, 16): leading white space, an optional sign, an optional 0x
\* or 0X, then the longest prefix of hex digits; NaN when there is none.
parseInt16(s) ==
  LET i0 == SkipWhiteSpace(s, 1)
      signed == i0 <= Len(s) /\ s[i0] \in { "+", "-" }
      neg == signed /\ s[i0] = "-"
      i1 == IF signed THEN i0 + 1 ELSE i0
      prefixed == /\ i1 + 1 <= Len(s)
                  /\ s[i1] = "0"
                  /\ s[i1 + 1] \in { "x", "X" }
      i2 == IF prefixed THEN i1 + 2 ELSE i1
      n == HexRun(s, i2, HexRunEnd(s, i2))
  IN  IF n.nan THEN NaN ELSE IF neg THEN Num(0 - n.v) ELSE n

(***************************************************************************)
(* Bytes.fromHexString and TextDecoder.decode, as extractErrorMessage      *)
(* calls them                                                              *)
(***************************************************************************)

RECURSIVE HexPairs(_, _)
HexPairs(s, i) ==
  IF i + 1 > Len(s) THEN << >>
  ELSE << 16 * HexDigitValue(s[i]) + HexDigitValue(s[i + 1]) >> \o HexPairs(s, i + 2)

\* Bytes.fromHexString(hex): the text must be hex digits after an optional
\* 0x, and an even number of them; otherwise the call throws.
fromHexString(hex) ==
  LET body == IF Len(hex) >= 2 /\ hex[1] = "0" /\ hex[2] = "x"
                THEN SubSeq(hex, 3, Len(hex)) ELSE hex
  IN  IF \E i \in 1..Len(body) : ~IsHexDigit(body[i])
        THEN [thrown |-> TRUE, bytes |-> << >>]
        ELSE IF Len(body) % 2 = 1
          THEN [thrown |-> TRUE, bytes |-> << >>]
          ELSE [thrown |-> FALSE, bytes |-> HexPairs(body, 1)]

\* The printable ASCII characters, 0x20 .. 0x7e, in code order (the grave accent, which a
\* string literal cannot hold, is named by a token).
Printable ==
  << " ", "!", "\"", "#", "$", "%", "&", "'", "(", ")", "*", "+", ",", "-", ".", "/",
     "0", "1", "2", "3", "4", "5", "6", "7", "8", "9", ":", ";", "<", "=", ">", "?",
     "@", "A", "B", "C", "D", "E", "F", "G", "H", "I", "J", "K", "L", "M", "N", "O",
     "P", "Q", "R", "S", "T", "U", "V", "W", "X", "Y", "Z", "[", "\\", "]", "^", "_",
     "<GRAVE>", "a", "b", "c", "d", "e", "f", "g", "h", "i", "j", "k", "l", "m", "n", "o",
     "p", "q", "r", "s", "t", "u", "v", "w", "x", "y", "z", "{", "|", "}", "~" >>

\* One decoded byte.  ASCII decodes to itself; a control character is named
\* by a token; a byte of 0x80 and above is shown as the replacement
\* character (multi-byte UTF-8 sequences are outside the texts explored).
DecodeByte(b) ==
  IF b >= 32 /\ b <= 126 THEN Printable[b - 31]
  ELSE IF b = 0 THEN "<NUL>"
  ELSE IF b < 128 THEN "<CTL>"
  ELSE "<FFFD>"

\* new TextDecoder().decode(bytes)
TextDecode(bytes) == [i \in 1..Len(bytes) |-> DecodeByte(bytes[i])]

(***************************************************************************)
(* extractErrorMessage                                                     *)
(***************************************************************************)

\* The text Reverted 0x08c379a0
RevertedSelector ==
  << "R", "e", "v", "e", "r", "t", "e", "d", " ",
     "0", "x", "0", "8", "c", "3", "7", "9", "a", "0" >>

\* The text revert: followed by a space
RevertPrefix == << "r", "e", "v", "e", "r", "t", ":", " " >>

\* The text Contract Error: followed by a space
ContractError ==
  << "C", "o", "n", "t", "r", "a", "c", "t", " ",
     "E", "r", "r", "o", "r", ":", " " >>

\* The number of hex characters of one 32-byte ABI word.
WordChars == 64

\* A JSON value of error.data: a text, or something that is not a text.
TextData(s) == [text |-> TRUE, val |-> s]

NonTextData == [text |-> FALSE, val |-> << >>]

Returned(message) == [thrown |-> FALSE, message |-> message]

Thrown == [thrown |-> TRUE, message |-> << >>]

\* F(v) with v computed once, as a const of the source is.
Const(v, F(_)) == CHOOSE r \in { F(x) : x \in { v } } : TRUE

\* The Parity branch of extractErrorMessage: the offset word, the length
\* word read at that offset, then that many hex characters decoded.
DecodeReverted(data) ==
  LET base == Len(RevertedSelector)
  IN  Const(NumTimes(parseInt16(substr(data, Num(base), Num(WordChars))), 2),
        LAMBDA offset :
          Const(NumTimes(parseInt16(
                  substr(data, NumPlus(offset, base), Num(WordChars))), 2),
            LAMBDA length :
              Const(fromHexString(
                      substr(data, NumPlus(NumPlus(offset, base), WordChars), length)),
                LAMBDA bytes :
                  IF bytes.thrown THEN Thrown
                  ELSE Returned(ContractError \o TextDecode(bytes.bytes)))))

\* extractErrorMessage(error): the message to surface, or a throw.
extractErrorMessage(e) ==
  IF ~e.data.text THEN Returned(e.message)
  ELSE IF startsWith(e.data.val, RevertedSelector)
    THEN DecodeReverted(e.data.val)
  ELSE IF startsWith(e.data.val, RevertPrefix)
    THEN Returned(ContractError \o substrFrom(e.data.val, Num(Len(RevertPrefix))))
  ELSE Returned(e.message)

(***************************************************************************)
(* ErrorWithData and remoteProcedureCall                                   *)
(***************************************************************************)

\* new ErrorWithData(message, data): an Error with every key of data
\* copied onto it (a key named message would replace the message).
ErrorWithData(message, data) ==
  [ name |-> "ErrorWithData",
    message |-> IF "message" \in DOMAIN data THEN data.message ELSE message,
    props |-> data ]

\* new Error(message), and an error raised inside a library call.
PlainError(message) == [name |-> "Error", message |-> message, props |-> [none |-> TRUE]]

\* request.wireEncode(): the JSON-RPC request envelope of a method.
WireRequest(method) == [jsonrpc |-> "2.0", id |-> 0, method |-> method]

\* What the transport hands back: ok/status/statusText and a body.  The
\* body is text that is not JSON, JSON that is no JSON-RPC response, a
\* JSON-RPC error envelope, or a JSON-RPC success envelope.
NoError == [code |-> 0, message |-> << >>, data |-> NonTextData]

NoResult == [none |-> TRUE]

Body(kind, error, result) == [kind |-> kind, error |-> error, result |-> result]

FetchResult(ok, status, statusText, body) ==
  [ok |-> ok, status |-> status, statusText |-> statusText, body |-> body]

\* response.json(): rejects when the body is not JSON.
JsonParses(body) == body.kind # "unparseable"

\* validateJsonRpcResponse(body): throws unless the body is an envelope.
validateJsonRpcResponse(body) == body.kind \in { "error", "success" }

isJsonRpcError(body) == body.kind = "error"

\* A call that repeats a failed exchange once before it throws.
CallThrewAfterRetry(kind, error, parsed, validated) ==
  [ threw |-> TRUE, kind |-> kind, error |-> error, result |-> NoResult,
    parsed |-> parsed, validated |-> validated,
    exchanges |-> IF kind = "transport" THEN 2 ELSE 1 ]

\* The outcome of one remoteProcedureCall: what it throws or returns, how
\* far it got (whether the body was parsed, validated, normalized), and
\* how many times it awaited this.fetch.
CallThrew(kind, error, parsed, validated) ==
  [ threw |-> TRUE, kind |-> kind, error |-> error, result |-> NoResult,
    parsed |-> parsed, validated |-> validated, exchanges |-> 1 ]

CallReturned(body) ==
  [ threw |-> FALSE, kind |-> "success", error |-> PlainError(<< >>),
    result |-> body.result, parsed |-> TRUE, validated |-> TRUE, exchanges |-> 1 ]

remoteProcedureCall(request, response) ==
  IF ~response.ok
    THEN CallThrew("transport",
           ErrorWithData(<< response.status, ": ", response.statusText, "\n",
                            "[object Promise]" >>, request),
           FALSE, FALSE)
  ELSE IF ~JsonParses(response.body)
    THEN CallThrew("protocol", PlainError(<< "SyntaxError" >>), FALSE, FALSE)
  ELSE IF ~validateJsonRpcResponse(response.body)
    THEN CallThrew("protocol",
           PlainError(<< "Expected JSON-RPC response, received something else." >>),
           TRUE, TRUE)
  ELSE IF isJsonRpcError(response.body)
    THEN LET m == extractErrorMessage(response.body.error)
         IN  IF m.thrown
               THEN CallThrew("secondary",
                      PlainError(<< "Expected a hex string encoded byte array" >>),
                      TRUE, TRUE)
               ELSE CallThrew("rpc",
                      ErrorWithData(m.message,
                        [ request |-> request,
                          code |-> response.body.error.code,
                          data |-> response.body.error.data ]),
                      TRUE, TRUE)
  ELSE CallReturned(response.body)

(***************************************************************************)
(* What a node sends: ABI-encoded revert reasons and error objects         *)
(***************************************************************************)

Zeros(k) == [i \in 1..k |-> "0"]

HexOfByte(b) == << HexLower[(b \div 16) + 1], HexLower[(b % 16) + 1] >>

\* The code of a printable ASCII character (TextEncoder on ASCII text).
CharCode(c) == 31 + (CHOOSE i \in 1..Len(Printable) : Printable[i] = c)

RECURSIVE HexOfText(_)
HexOfText(s) ==
  IF s = << >> THEN << >> ELSE HexOfByte(CharCode(Head(s))) \o HexOfText(Tail(s))

\* One 32-byte big-endian ABI word holding n (n < 65536), as hex text.
Word(n) ==
  Zeros(WordChars - 4) \o
  << HexLower[(n \div 4096) + 1], HexLower[((n \div 256) % 16) + 1],
     HexLower[((n \div 16) % 16) + 1], HexLower[(n % 16) + 1] >>

\* The ABI encoding of one dynamic string: the offset of the string (32),
\* its length in bytes, its bytes, zero padding to a whole word.
abiEncode(s) ==
  Word(32) \o Word(Len(s)) \o HexOfText(s)
    \o Zeros((WordChars - ((2 * Len(s)) % WordChars)) % WordChars)

RawMessage == << "V", "M", " ", "e", "x", "e", "c", "u", "t", "i", "o", "n",
                 " ", "e", "r", "r", "o", "r", "." >>

Oops == << "O", "o", "p", "s" >>

\* Error objects a node answers with: data that is no text, a Parity
\* revert with a decodable reason, a Nethermind revert, and a Parity revert
\* whose payload is not hex.  NodeErrors are the ones the pipeline meets.
ErrPlain == [code |-> -32000, message |-> RawMessage, data |-> NonTextData]

ErrReverted ==
  [ code |-> -32015, message |-> RawMessage,
    data |-> TextData(RevertedSelector \o abiEncode(Oops)) ]

ErrNethermind ==
  [ code |-> -32015, message |-> RawMessage,
    data |-> TextData(RevertPrefix \o << "b", "a", "d" >>) ]

ErrBadPayload ==
  [ code |-> -32015, message |-> RawMessage,
    data |-> TextData(RevertedSelector \o Word(32) \o Word(2) \o << "z", "z", "z", "z" >>) ]

NodeErrors == { ErrPlain, ErrReverted, ErrBadPayload }

(***************************************************************************)
(* Transaction receipts                                                    *)
(***************************************************************************)

\* The result member of an eth_getTransactionReceipt answer: null, or a
\* receipt whose block fields are null until the transaction is included.
RawReceipt(present, blockNumber, blockHash, status, contractAddress) ==
  [ present |-> present, blockNumber |-> blockNumber, blockHash |-> blockHash,
    status |-> status, contractAddress |-> contractAddress ]

NullReceipt == RawReceipt(FALSE, Null, Null, FALSE, Null)

BlockNumbers == { Null, 5 }

BlockHashes == { Null, 2748 }

ContractAddresses == { Null, 0, 7 }

RawReceipts ==
  { NullReceipt } \cup
  { RawReceipt(TRUE, n, h, st, c) :
      n \in BlockNumbers, h \in BlockHashes, st \in BOOLEAN, c \in ContractAddresses }

\* A receipt of a transaction that is included in a block.
Qualifies(raw) == raw.present /\ raw.blockNumber # Null /\ raw.blockHash # Null

\* A getTransactionReceipt that looks at the block number only.
getTransactionReceiptByBlockNumber(result) ==
  IF ~result.present \/ result.blockNumber = Null THEN NullReceipt ELSE result

\* getTransactionReceipt, after its remoteProcedureCall returned: null
\* for a null result or one without block number or block hash, else the
\* decoded receipt (new Rpc.Eth.GetTransactionReceipt.Response).
getTransactionReceipt(result) ==
  IF ~result.present \/ result.blockNumber = Null \/ result.blockHash = Null
    THEN NullReceipt
    ELSE result

\* A loop condition that also waits while the receipt reports failure.
StillPendingOrFailed(receipt) ==
  ~receipt.present \/ receipt.blockNumber = Null \/ ~receipt.status

\* The condition of the polling loop of executeTransaction.
StillPending(receipt) == ~receipt.present \/ receipt.blockNumber = Null

\* JavaScript truthiness of a bigint | null | undefined value.
Truthy(v) == v # Null /\ v # Undefined /\ v # 0

MinedButFailed == PlainError(<< "Transaction mined, but failed." >>)

DeploymentFailed ==
  PlainError(<< "Contract deployment failed.  Contract address was null." >>)

\* An end of executeTransaction that never looks at the contract address.
ConcludeOnStatusAlone(receipt, to) ==
  IF ~receipt.status
    THEN [kind |-> "thrown", error |-> MinedButFailed, receipt |-> receipt]
    ELSE [kind |-> "returned", error |-> PlainError(<< >>), receipt |-> receipt]

\* An end of executeTransaction that looks at the contract address first.
ConcludeOnAddressFirst(receipt, to) ==
  IF ~Truthy(receipt.contractAddress) /\ ~Truthy(to)
    THEN [kind |-> "thrown", error |-> DeploymentFailed, receipt |-> receipt]
  ELSE IF ~receipt.status
    THEN [kind |-> "thrown", error |-> MinedButFailed, receipt |-> receipt]
    ELSE [kind |-> "returned", error |-> PlainError(<< >>), receipt |-> receipt]

\* The end of executeTransaction, once the loop is left: throw or return.
Conclude(receipt, to) ==
  IF ~receipt.status THEN [kind |-> "thrown", error |-> MinedButFailed, receipt |-> receipt]
  ELSE IF ~Truthy(receipt.contractAddress) /\ ~Truthy(to)
    THEN [kind |-> "thrown", error |-> DeploymentFailed, receipt |-> receipt]
    ELSE [kind |-> "returned", error |-> PlainError(<< >>), receipt |-> receipt]

(***************************************************************************)
(* The client and one executeTransaction on it                             *)
(***************************************************************************)

\* The longest run of receipt polls explored (the loop itself has no limit).
MaxPolls == 3

Addresses == { 0, 1 }

\* The configurations explored: every choice of address provider,
\* signature provider and chain id, the two gas providers given together.
ClientOptions ==
  { o \in [ addressProvider : BOOLEAN, gasPriceInAttoethProvider : BOOLEAN,
            gasLimitProvider : BOOLEAN, signatureProvider : BOOLEAN,
            chainId : { Undefined, 1 } ] :
      o.gasPriceInAttoethProvider = o.gasLimitProvider }

\* The public operations that run executeTransaction, with the partial
\* transaction each hands to it.
PartialTransaction(to, from, gasPrice, gasLimit, nonce) ==
  [to |-> to, from |-> from, gasPrice |-> gasPrice, gasLimit |-> gasLimit, nonce |-> nonce]

sendEth(destination) ==
  [ name |-> "sendEth",
    transaction |-> PartialTransaction(destination, Undefined, Undefined, Undefined, Undefined) ]

deployContract ==
  [ name |-> "deployContract",
    transaction |-> PartialTransaction(Null, Undefined, Undefined, Undefined, Undefined) ]

onChainContractCall(transaction) ==
  [name |-> "onChainContractCall", transaction |-> transaction]

\* The calls explored: onChainContractCall with the optional fields all
\* left out or all given.
Operations ==
  { sendEth(d) : d \in Addresses } \cup { deployContract } \cup
  { onChainContractCall(PartialTransaction(to, Undefined, Undefined, Undefined, Undefined)) :
      to \in Addresses \cup { Null } } \cup
  { onChainContractCall(PartialTransaction(to, 1, 2, 3, 4)) :
      to \in Addresses \cup { Null } }

\* What the transport may answer to a request whose successful results
\* are `results`: a failed exchange, a body that is no envelope, an error
\* envelope, a success envelope.
Ok(body) == FetchResult(TRUE, "200", "OK", body)

ServerError ==
  FetchResult(FALSE, "500", "Internal Server Error", Body("unparseable", NoError, NoResult))

Responses(results) ==
  { ServerError, Ok(Body("invalid", NoError, NoResult)) }
  \cup { Ok(Body("error", e, NoResult)) : e \in NodeErrors }
  \cup { Ok(Body("success", NoError, r)) : r \in results }

\* A provider callback resolves with one of `values` or rejects.
ProviderFailed == PlainError(<< "provider rejected" >>)

ProviderOutcomes(values) ==
  { [threw |-> FALSE, value |-> v, error |-> PlainError(<< >>)] : v \in values }
  \cup { [threw |-> TRUE, value |-> Null, error |-> ProviderFailed] }

Value(n) == [value |-> n]

VARIABLES
  options,          \* the options the client was constructed with
  operation,        \* the public operation running, with its transaction
  pc,               \* the await executeTransaction is suspended at
  chainIdPromise,   \* this.chainId
  mined,            \* the node has included the transaction in a block
  fetches,          \* receipt fetches answered so far
  delays,           \* sleep(1000) calls completed so far
  firstQualifying,  \* the first qualifying receipt served, and at which fetch
  received,         \* error envelopes received by calls the operation awaited
  outcome,          \* how the operation ended
  call,             \* one remoteProcedureCall: request, response, outcome
  error,            \* the error object handed to extractErrorMessage
  normalized,       \* what extractErrorMessage made of it
  signing,          \* the signTransaction/submitTransaction runs on the client
  chainIdQueries,   \* eth_chainId requests the client has issued by itself
  plain,            \* the transaction handed to rlpEncodeTransaction
  encoded           \* what rlpEncodeTransaction made of it

pipelineVars == << options, operation, pc, chainIdPromise, mined, fetches, delays,
                   firstQualifying, received, outcome >>

beside == << signing, chainIdQueries, plain, encoded >>

aside == << call, error, normalized, beside >>

vars == << pipelineVars, aside >>

NoneYet == [index |-> 0, receipt |-> NullReceipt]

NoTransaction == [none |-> TRUE]

NotEncoded == [done |-> FALSE]

\* No signTransaction is looked at on its own, and no encoding.
BesideIdle ==
  /\ signing = << >>
  /\ chainIdQueries = 0
  /\ plain = NoTransaction
  /\ encoded = NotEncoded

NoCall == [made |-> FALSE]

NotNormalized == [done |-> FALSE]

Running == [kind |-> "none", error |-> PlainError(<< >>), receipt |-> NullReceipt]

Threw(e) == [kind |-> "thrown", error |-> e, receipt |-> NullReceipt]

\* An answer that is a JSON-RPC error envelope on a successful exchange.
IsErrorEnvelope(response) == response.ok /\ response.body.kind = "error"

Envelopes(method, response) ==
  IF IsErrorEnvelope(response)
    THEN { [method |-> method, error |-> response.body.error] }
    ELSE { }

\* The constructor: the chain id is the option, or a query sent at once.
Init ==
  /\ options \in ClientOptions
  /\ operation \in Operations
  /\ pc = "from"
  /\ chainIdPromise =
       IF options.chainId # Undefined
         THEN [state |-> "fulfilled", value |-> options.chainId]
         ELSE [state |-> "pending"]
  /\ mined = FALSE
  /\ fetches = 0
  /\ delays = 0
  /\ firstQualifying = NoneYet
  /\ received = { }
  /\ outcome = Running
  /\ call = NoCall
  /\ error = NoError
  /\ normalized = NotNormalized
  /\ BesideIdle

\* No operation is running: the state of the pipeline while the channel or
\* the normalizer is looked at on its own.
PipelineIdle ==
  /\ options = [ addressProvider |-> FALSE, gasPriceInAttoethProvider |-> FALSE,
                 gasLimitProvider |-> FALSE, signatureProvider |-> FALSE,
                 chainId |-> 1 ]
  /\ operation = deployContract
  /\ pc = "idle"
  /\ chainIdPromise = [state |-> "fulfilled", value |-> 1]
  /\ mined = FALSE
  /\ fetches = 0
  /\ delays = 0
  /\ firstQualifying = NoneYet
  /\ received = { }
  /\ outcome = Running

\* The answer to the constructor's eth_chainId query arrives.
ChainIdSettles ==
  /\ chainIdPromise.state = "pending"
  /\ \E response \in Responses({ Value(1) }) :
       LET result == remoteProcedureCall(WireRequest("eth_chainId"), response)
       IN  chainIdPromise' =
             IF result.threw
               THEN [ state |-> "rejected", error |-> result.error,
                      envelopes |-> Envelopes("eth_chainId", response) ]
               ELSE [state |-> "fulfilled", value |-> result.result.value]
  /\ UNCHANGED << options, operation, pc, mined, fetches, delays, firstQualifying,
                  received, outcome, aside >>

\* An awaited remote call of the pipeline: the call throws and with it the
\* operation, or the pipeline goes on to `next`.
RemoteStage(method, results, next) ==
  \E response \in Responses(results) :
    LET result == remoteProcedureCall(WireRequest(method), response)
    IN  /\ received' = received \cup Envelopes(method, response)
        /\ IF result.threw
             THEN pc' = "done" /\ outcome' = Threw(result.error)
             ELSE pc' = next /\ outcome' = outcome

\* An awaited provider callback of the pipeline.
ProviderStage(values, next) ==
  \E result \in ProviderOutcomes(values) :
    /\ received' = received
    /\ IF result.threw
         THEN pc' = "done" /\ outcome' = Threw(result.error)
         ELSE pc' = next /\ outcome' = outcome

Skip(next) == pc' = next /\ UNCHANGED << received, outcome >>

\* signTransaction, from: the caller's, else coinbase() with a rejection
\* caught and replaced by null, else 0.
ResolveFrom ==
  /\ pc = "from"
  /\ \/ /\ operation.transaction.from # Undefined
        /\ Skip("gasPrice")
     \/ /\ operation.transaction.from = Undefined
        /\ options.addressProvider
        /\ \E result \in ProviderOutcomes({ 1 }) : Skip("gasPrice")
     \/ /\ operation.transaction.from = Undefined
        /\ ~options.addressProvider
        /\ \E response \in Responses({ Value(Null), Value(1) }) :
             /\ received' = received \cup Envelopes("eth_coinbase", response)
             /\ pc' = "gasPrice"
             /\ outcome' = outcome
  /\ UNCHANGED << options, operation, chainIdPromise, mined, fetches, delays,
                  firstQualifying, aside >>

\* signTransaction, gasPrice: the caller's, else getGasPrice().
ResolveGasPrice ==
  /\ pc = "gasPrice"
  /\ \/ /\ Truthy(operation.transaction.gasPrice)
        /\ Skip("gasLimit")
     \/ /\ ~Truthy(operation.transaction.gasPrice)
        /\ options.gasPriceInAttoethProvider
        /\ ProviderStage({ 2 }, "gasLimit")
     \/ /\ ~Truthy(operation.transaction.gasPrice)
        /\ ~options.gasPriceInAttoethProvider
        /\ RemoteStage("eth_gasPrice", { Value(2) }, "gasLimit")
  /\ UNCHANGED << options, operation, chainIdPromise, mined, fetches, delays,
                  firstQualifying, aside >>

\* signTransaction, gasLimit: the caller's, else gasLimitProvider, which
\* by default awaits estimateGas.
ResolveGasLimit ==
  /\ pc = "gasLimit"
  /\ \/ /\ Truthy(operation.transaction.gasLimit)
        /\ Skip("nonce")
     \/ /\ ~Truthy(operation.transaction.gasLimit)
        /\ options.gasLimitProvider
        /\ ProviderStage({ 3 }, "nonce")
     \/ /\ ~Truthy(operation.transaction.gasLimit)
        /\ ~options.gasLimitProvider
        /\ RemoteStage("eth_estimateGas", { Value(3) }, "nonce")
  /\ UNCHANGED << options, operation, chainIdPromise, mined, fetches, delays,
                  firstQualifying, aside >>

\* signTransaction, nonce: the caller's, else getTransactionCount.
ResolveNonce ==
  /\ pc = "nonce"
  /\ \/ /\ Truthy(operation.transaction.nonce)
        /\ Skip("chainId")
     \/ /\ ~Truthy(operation.transaction.nonce)
        /\ RemoteStage("eth_getTransactionCount", { Value(4) }, "chainId")
  /\ UNCHANGED << options, operation, chainIdPromise, mined, fetches, delays,
                  firstQualifying, aside >>

\* signTransaction, chainId: await this.chainId.
AwaitChainId ==
  /\ pc = "chainId"
  /\ \/ /\ chainIdPromise.state = "fulfilled"
        /\ Skip("sign")
     \/ /\ chainIdPromise.state = "rejected"
        /\ pc' = "done"
        /\ outcome' = Threw(chainIdPromise.error)
        /\ received' = received \cup chainIdPromise.envelopes
  /\ UNCHANGED << options, operation, chainIdPromise, mined, fetches, delays,
                  firstQualifying, aside >>

\* signTransaction, signing: eth_signTransaction, or the signature
\* provider on the encoded unsigned transaction.
Sign ==
  /\ pc = "sign"
  /\ \/ /\ ~options.signatureProvider
        /\ RemoteStage("eth_signTransaction", { Value(11) }, "send")
     \/ /\ options.signatureProvider
        /\ ProviderStage({ 12 }, "send")
  /\ UNCHANGED << options, operation, chainIdPromise, mined, fetches, delays,
                  firstQualifying, aside >>

\* submitTransaction: sendRawTransaction(encodedTransaction).
SendRawTransaction ==
  /\ pc = "send"
  /\ RemoteStage("eth_sendRawTransaction", { Value(9) }, "receipt")
  /\ UNCHANGED << options, operation, chainIdPromise, mined, fetches, delays,
                  firstQualifying, aside >>

\* The node includes the submitted transaction in a block.
Mine ==
  /\ pc \in { "receipt", "sleep" }
  /\ ~mined
  /\ mined' = TRUE
  /\ UNCHANGED << options, operation, pc, chainIdPromise, fetches, delays,
                  firstQualifying, received, outcome, aside >>

\* The receipts a node serves: qualifying ones once the transaction is
\* included, the others before.
ServedReceipts == { r \in RawReceipts : Qualifies(r) <=> mined }

\* One getTransactionReceipt of executeTransaction and what follows it
\* without suspension: the loop test, then the final checks.
FetchReceipt ==
  /\ pc = "receipt"
  /\ fetches < MaxPolls \/ mined
  /\ \E response \in Responses(ServedReceipts) :
       LET result == remoteProcedureCall(WireRequest("eth_getTransactionReceipt"), response)
           receipt == getTransactionReceipt(result.result)
       IN  /\ received' = received \cup Envelopes("eth_getTransactionReceipt", response)
           /\ fetches' = fetches + 1
           /\ firstQualifying' =
                IF /\ firstQualifying = NoneYet
                   /\ response.ok
                   /\ response.body.kind = "success"
                   /\ Qualifies(response.body.result)
                  THEN [index |-> fetches + 1, receipt |-> response.body.result]
                  ELSE firstQualifying
           /\ IF result.threw
                THEN pc' = "done" /\ outcome' = Threw(result.error)
                ELSE IF StillPending(receipt)
                  THEN pc' = "sleep" /\ outcome' = outcome
                  ELSE /\ pc' = "done"
                       /\ outcome' = Conclude(receipt, operation.transaction.to)
  /\ UNCHANGED << options, operation, chainIdPromise, mined, delays, aside >>

\* A polling loop that gives up at its second delay.
SleepGivingUp ==
  /\ pc = "sleep"
  /\ delays' = delays + 1
  /\ IF delays >= 1
       THEN pc' = "done" /\ outcome' = Threw(PlainError(<< "Timed out." >>))
       ELSE pc' = "receipt" /\ outcome' = outcome
  /\ UNCHANGED << options, operation, chainIdPromise, mined, fetches,
                  firstQualifying, received, aside >>

\* await sleep(1000) of the polling loop completes.
Sleep ==
  /\ pc = "sleep"
  /\ delays' = delays + 1
  /\ pc' = "receipt"
  /\ UNCHANGED << options, operation, chainIdPromise, mined, fetches,
                  firstQualifying, received, outcome, aside >>

Next ==
  \/ ChainIdSettles
  \/ ResolveFrom
  \/ ResolveGasPrice
  \/ ResolveGasLimit
  \/ ResolveNonce
  \/ AwaitChainId
  \/ Sign
  \/ SendRawTransaction
  \/ Mine
  \/ FetchReceipt
  \/ Sleep

Spec == Init /\ [][Next]_vars

\* The polling loop under its scheduling: a timer that was set fires, and
\* a receipt request that was sent is answered.
LiveSpec == Spec /\ WF_vars(Sleep) /\ WF_vars(FetchReceipt)

(***************************************************************************)
(* remoteProcedureCall on its own: one request, one answer                 *)
(***************************************************************************)

Methods == { "eth_call", "eth_chainId", "eth_sendRawTransaction",
             "eth_getTransactionReceipt" }

HttpStatuses ==
  { [ok |-> TRUE, status |-> "200", statusText |-> "OK"],
    [ok |-> FALSE, status |-> "404", statusText |-> "Not Found"],
    [ok |-> FALSE, status |-> "500", statusText |-> "Internal Server Error"] }

Bodies ==
  { Body("unparseable", NoError, NoResult), Body("invalid", NoError, NoResult) }
  \cup { Body("error", e, NoResult) : e \in NodeErrors \cup { ErrNethermind } }
  \cup { Body("success", NoError, r) : r \in { Value(1), NullReceipt } }

ChannelInit ==
  /\ PipelineIdle
  /\ BesideIdle
  /\ error = NoError
  /\ normalized = NotNormalized
  /\ \E method \in Methods, http \in HttpStatuses, body \in Bodies :
       call = [ made |-> FALSE, request |-> WireRequest(method),
                response |-> FetchResult(http.ok, http.status, http.statusText, body) ]

\* The exchange completes and remoteProcedureCall returns or throws.
Exchange ==
  /\ ~call.made
  /\ call' = [ made |-> TRUE, request |-> call.request, response |-> call.response,
               outcome |-> remoteProcedureCall(call.request, call.response) ]
  /\ UNCHANGED << pipelineVars, error, normalized, beside >>

ChannelNext == Exchange

SpecChannel == ChannelInit /\ [][ChannelNext]_vars

(***************************************************************************)
(* extractErrorMessage on its own: one error object                        *)
(***************************************************************************)

\* The longest revert reason explored.
MaxReasonLen == 2

ReasonAlphabet == { "O", "k" }

Reasons ==
  { Oops } \cup UNION { [1..n -> ReasonAlphabet] : n \in 0..MaxReasonLen }

\* The texts explored as error.data: every well-formed Parity revert, each
\* cut short at every length, each with one character replaced by one that
\* is no hex digit; Nethermind reverts; other texts.
BadCharacters == { "z" }

WellFormed == { RevertedSelector \o abiEncode(s) : s \in Reasons }

Truncated == UNION { { SubSeq(d, 1, n) : n \in 0..(Len(d) - 1) } : d \in WellFormed }

Damaged ==
  UNION { { [d EXCEPT ![p] = c] :
              p \in (Len(RevertedSelector) + 1)..Len(d), c \in BadCharacters } :
          d \in WellFormed }

DataTexts ==
  WellFormed \cup Truncated \cup Damaged
    \cup { RevertPrefix \o s : s \in Reasons } \cup Reasons

ErrorObjects ==
  { [code |-> -32015, message |-> m, data |-> d] :
      m \in { RawMessage, << >> },
      d \in { NonTextData } \cup { TextData(t) : t \in DataTexts } }

NormalizerInit ==
  /\ PipelineIdle
  /\ BesideIdle
  /\ call = NoCall
  /\ error \in ErrorObjects
  /\ normalized = NotNormalized

Normalize ==
  /\ ~normalized.done
  /\ normalized' = [done |-> TRUE, result |-> extractErrorMessage(error)]
  /\ UNCHANGED << pipelineVars, call, error, beside >>

NormalizerNext == Normalize

SpecNormalizer == NormalizerInit /\ [][NormalizerNext]_vars

(***************************************************************************)
(* Properties of executeTransaction                                        *)
(***************************************************************************)

\* executeTransaction ended on a receipt: it returned it, or raised one of
\* its two failures.  (Any other end is an awaited call that threw.)
Concluded ==
  \/ outcome.kind = "returned"
  \/ outcome.kind = "thrown" /\ outcome.error \in { MinedButFailed, DeploymentFailed }

Mined == firstQualifying.index # 0

\* C1: executeTransaction returns the receipt or raises the mining or the
\* deployment failure only after a receipt fetch returned a receipt whose
\* blockNumber and blockHash are both non-null; while every receipt served
\* was absent or lacked one of the two, the operation is pending: it sleeps
\* or fetches again, or ended because an awaited call threw.
C1_TerminalOnlyAfterQualifyingReceipt ==
  /\ Concluded =>
       /\ Mined
       /\ Qualifies(firstQualifying.receipt)
       /\ firstQualifying.index <= fetches
  /\ (fetches > 0 /\ ~Mined) =>
       /\ ~Concluded
       /\ pc \in { "sleep", "receipt" } \/ (pc = "done" /\ outcome.kind = "thrown")
  /\ pc = "sleep" => ~Mined /\ outcome = Running

C1_Witness ==
  /\ Concluded
  /\ firstQualifying.index = 3
  /\ outcome.receipt.blockNumber # Null
  /\ outcome.receipt.blockHash # Null

\* C2: when the first qualifying receipt is the (k+1)-th answer, the loop
\* sleeps exactly k times and fetches exactly k+1 times, and the receipt it
\* evaluates is that answer; on the way a sleep follows every fetch.
C2_DelaysAndFetches ==
  /\ Concluded =>
       /\ fetches = firstQualifying.index
       /\ delays = firstQualifying.index - 1
       /\ outcome.receipt = firstQualifying.receipt
  /\ pc = "sleep" => delays = fetches - 1
  /\ (pc = "receipt" /\ fetches > 0) => delays = fetches

C2_Witness ==
  /\ outcome.kind = "returned"
  /\ firstQualifying.index = 3
  /\ fetches = 3
  /\ delays = 2

\* C3: a creation transaction (to = null) whose mined receipt has status
\* true and no contract address ends in the deployment failure, and
\* deployContract never returns a receipt without a contract address.
C3_DeploymentFailure ==
  /\ ( /\ pc = "done"
       /\ Mined
       /\ operation.transaction.to = Null
       /\ firstQualifying.receipt.status
       /\ firstQualifying.receipt.contractAddress = Null )
       => outcome = [kind |-> "thrown", error |-> DeploymentFailed,
                     receipt |-> firstQualifying.receipt]
  /\ (operation.name = "deployContract" /\ outcome.kind = "returned")
       => outcome.receipt.contractAddress # Null

C3_Witness ==
  /\ operation = deployContract
  /\ Mined
  /\ firstQualifying.receipt.status
  /\ firstQualifying.receipt.contractAddress = Null
  /\ outcome.kind = "thrown"
  /\ outcome.error = DeploymentFailed

\* C4: for every transaction with a non-null to, the all-zero address
\* included, a mined receipt with status true makes executeTransaction
\* return the receipt, whatever its contract address is.
C4_DeploymentFailureOnlyForCreation ==
  ( /\ pc = "done"
    /\ Mined
    /\ operation.transaction.to # Null
    /\ firstQualifying.receipt.status )
    => outcome.kind = "returned" /\ outcome.receipt = firstQualifying.receipt

\* C5: a mined receipt gives exactly one of: the receipt returned, the
\* mining failure, the deployment failure; status false always gives the
\* mining failure, and the deployment failure needs status true.
C5_FailuresDistinguished ==
  Mined =>
    /\ pc = "done"
    /\ Concluded
    /\ ~firstQualifying.receipt.status
         => outcome.kind = "thrown" /\ outcome.error = MinedButFailed
    /\ (outcome.kind = "thrown" /\ outcome.error = DeploymentFailed)
         => firstQualifying.receipt.status
    /\ outcome.kind = "returned" => firstQualifying.receipt.status

C5_Witness ==
  /\ Mined
  /\ operation.transaction.to = Null
  /\ ~firstQualifying.receipt.status
  /\ firstQualifying.receipt.contractAddress = Null
  /\ outcome.kind = "thrown"
  /\ outcome.error = MinedButFailed

\* C6: the loop has no retry limit and no timeout.  Every delay, however
\* many went before, is followed by another fetch; as long as no qualifying
\* receipt was served the operation has not concluded, and another fetch
\* or delay is what comes next unless a fetch threw; it concludes only on
\* a qualifying receipt, and once the node has included the transaction
\* the operation ends, given that timers fire and fetches are answered.
C6_NoRetryLimit ==
  /\ [][(pc = "sleep" /\ pc' # "sleep") => (pc' = "receipt" /\ outcome' = Running)]_vars
  /\ [](pc = "receipt" => ENABLED (FetchReceipt \/ Mine))
  /\ [](Concluded => Mined)
  /\ (mined ~> pc = "done")

\* MaxPolls receipts that do not qualify were served, and the operation
\* is about to sleep and fetch once more.
C6_Witness ==
  /\ fetches = MaxPolls
  /\ delays = MaxPolls - 1
  /\ ~Mined
  /\ pc = "sleep"
  /\ outcome = Running

(***************************************************************************)
(* Properties of remoteProcedureCall and of the error normalizer           *)
(***************************************************************************)

\* The error an RpcError is: the normalized message, and the code, the
\* data and the original request of the exchange.
RpcError(message, request, e) ==
  ErrorWithData(message, [request |-> request, code |-> e.code, data |-> e.data])

\* C7: remoteProcedureCall ends in exactly one of four ways, decided in
\* this order: a transport error with status code and status text when the
\* response is not ok, the body never validated; else a protocol error
\* when the body is no envelope; else an RpcError with code, data and
\* request when the envelope is an error object; else the result returned.
C7_FourOutcomes ==
  call.made =>
    LET r == call.response
        o == call.outcome
    IN  IF ~r.ok
          THEN /\ o.threw
               /\ o.error.name = "ErrorWithData"
               /\ o.error.props = call.request
               /\ o.error.message[1] = r.status
               /\ o.error.message[3] = r.statusText
               /\ ~o.validated
        ELSE IF r.body.kind \notin { "error", "success" }
          THEN o.threw /\ o.error.name = "Error"
        ELSE IF r.body.kind = "error"
          THEN /\ o.threw
               /\ o.error.name = "ErrorWithData"
               /\ o.error.props = [ request |-> call.request,
                                    code |-> r.body.error.code,
                                    data |-> r.body.error.data ]
        ELSE ~o.threw /\ o.result = r.body.result

\* C8: every error envelope an awaited call of the operation received is
\* what the operation fails with: an error whose message is the output of
\* the normalizer for the error object, carrying its code, its data and
\* the request; a decodable revert reason replaces the raw message.
C8_EveryErrorEnvelopeSurfaced ==
  \A r \in received :
    /\ outcome.kind = "thrown"
    /\ ~extractErrorMessage(r.error).thrown
    /\ outcome.error =
         RpcError(extractErrorMessage(r.error).message, WireRequest(r.method), r.error)
    /\ r.error = ErrReverted => outcome.error.message = ContractError \o Oops

\* The rule the normalizer is held to: data that is no text, the selector
\* followed by the ABI encoding of a string, the revert prefix, anything
\* else.
ReferenceMessage(e) ==
  IF ~e.data.text THEN e.message
  ELSE IF \E s \in Reasons : e.data.val = RevertedSelector \o abiEncode(s)
    THEN ContractError \o
           (CHOOSE s \in Reasons : e.data.val = RevertedSelector \o abiEncode(s))
  ELSE IF Len(e.data.val) >= Len(RevertPrefix)
            /\ SubSeq(e.data.val, 1, Len(RevertPrefix)) = RevertPrefix
    THEN ContractError \o SubSeq(e.data.val, Len(RevertPrefix) + 1, Len(e.data.val))
  ELSE e.message

\* C9: for every error object, extractErrorMessage returns what the
\* reference rule gives, its cases tried in order.
C9_NormalizerEqualsReference ==
  normalized.done =>
    /\ ~normalized.result.thrown
    /\ normalized.result.message = ReferenceMessage(error)

\* Text that carries the selector and is not the selector followed by the
\* ABI encoding of a string.
Malformed(e) ==
  /\ e.data.text
  /\ Len(e.data.val) >= Len(RevertedSelector)
  /\ SubSeq(e.data.val, 1, Len(RevertedSelector)) = RevertedSelector
  /\ e.data.val \notin WellFormed

\* C10: for text data that carries the Error(string) selector and whose
\* offset, length or payload is malformed, the normalizer returns the raw
\* message unchanged and throws nothing.
C10_DecodingNeverRaises ==
  (normalized.done /\ Malformed(error)) =>
    /\ ~normalized.result.thrown
    /\ normalized.result.message = error.message

(***************************************************************************)
(* rlpEncodeTransaction on its own: one transaction                        *)
(***************************************************************************)

Pow256 == << 1, 256, 65536, 16777216 >>

\* Bytes.fromUnsignedInteger(value, bits): the big-endian bytes of value
\* at the full width (values below 2^31 here, so the high bytes are zero).
fromUnsignedInteger(value, bits) ==
  [ i \in 1..(bits \div 8) |->
      IF (bits \div 8) - i >= Len(Pow256)
        THEN 0
        ELSE (value \div Pow256[(bits \div 8) - i + 1]) % 256 ]

\* A stripLeadingZeros that strips nothing.
keepLeadingZeros(byteArray) == byteArray

\* A stripLeadingZeros that drops every zero byte, wherever it stands.
stripEveryZero(byteArray) == SelectSeq(byteArray, LAMBDA byte : byte # 0)

\* stripLeadingZeros(byteArray): i runs to the first byte that is not 0.
stripLeadingZeros(byteArray) ==
  LET i == CHOOSE k \in 0..Len(byteArray) :
             /\ \A j \in 1..k : byteArray[j] = 0
             /\ k = Len(byteArray) \/ byteArray[k + 1] # 0
  IN  [ j \in 1..(Len(byteArray) - i) |-> byteArray[i + j] ]

\* An isSignedTransaction that takes every transaction for unsigned.
neverSigned(transaction) == FALSE

isSignedTransaction(transaction) ==
  "r" \in DOMAIN transaction /\ transaction.r # Undefined

\* The nine items rlpEncodeTransaction hands to rlpEncode.
toEncode(transaction) ==
  << stripLeadingZeros(fromUnsignedInteger(transaction.nonce, 256)),
     stripLeadingZeros(fromUnsignedInteger(transaction.gasPrice, 256)),
     stripLeadingZeros(fromUnsignedInteger(transaction.gasLimit, 256)),
     stripLeadingZeros(IF transaction.to # Null
                         THEN fromUnsignedInteger(transaction.to, 256)
                         ELSE << >>),
     stripLeadingZeros(fromUnsignedInteger(transaction.value, 256)),
     transaction.data >>
  \o IF ~isSignedTransaction(transaction)
       THEN << stripLeadingZeros(fromUnsignedInteger(transaction.chainId, 256)),
               stripLeadingZeros(<< >>),
               stripLeadingZeros(<< >>) >>
       ELSE << stripLeadingZeros(fromUnsignedInteger(transaction.v, 256)),
               stripLeadingZeros(fromUnsignedInteger(transaction.r, 256)),
               stripLeadingZeros(fromUnsignedInteger(transaction.s, 256)) >>

\* rlpEncode of the vendored list encoder: the length prefix of a string
\* (offset 128) or of a list (offset 192), short form up to 55 bytes.
rlpLength(length, offset) ==
  IF length <= 55
    THEN << offset + length >>
    ELSE LET bytes == stripLeadingZeros(fromUnsignedInteger(length, 32))
         IN  << offset + 55 + Len(bytes) >> \o bytes

rlpEncodeItem(bytes) ==
  IF Len(bytes) = 1 /\ bytes[1] < 128
    THEN bytes
    ELSE rlpLength(Len(bytes), 128) \o bytes

RECURSIVE rlpConcat(_)
rlpConcat(items) ==
  IF items = << >> THEN << >> ELSE rlpEncodeItem(Head(items)) \o rlpConcat(Tail(items))

rlpEncode(items) ==
  Const(rlpConcat(items), LAMBDA payload : rlpLength(Len(payload), 192) \o payload)

rlpEncodeTransaction(transaction) == rlpEncode(toEncode(transaction))

\* The transactions explored: quantities of zero, one and two bytes and
\* with the high bit set, every kind of destination, data with a leading
\* zero byte; unsigned, and signed ones.
Destinations == { Null, 0, 1, 300 }

UnsignedTransactions ==
  { [ nonce |-> n, gasPrice |-> g, gasLimit |-> 21000, to |-> to, value |-> v,
      data |-> d, chainId |-> c ] :
      n \in { 0, 1, 128 }, g \in { 0, 256 }, to \in Destinations, v \in { 0, 255 },
      d \in { << >>, << 0 >>, << 0, 1 >> }, c \in { 1, 300 } }

\* {...transaction, r, s, v}
WithSignature(transaction, v, r, s) ==
  [ k \in DOMAIN transaction \cup { "v", "r", "s" } |->
      IF k = "v" THEN v ELSE IF k = "r" THEN r ELSE IF k = "s" THEN s
      ELSE transaction[k] ]

SignedTransactions ==
  { WithSignature(t, v, r, 77) :
      t \in UnsignedTransactions, v \in { 37, 38 }, r \in { 1000, 0 } }

EncoderInit ==
  /\ PipelineIdle
  /\ call = NoCall
  /\ error = NoError
  /\ normalized = NotNormalized
  /\ signing = << >>
  /\ chainIdQueries = 0
  /\ plain \in UnsignedTransactions \cup SignedTransactions
  /\ encoded = NotEncoded

Encode ==
  /\ ~encoded.done
  /\ encoded' = [ done |-> TRUE, items |-> toEncode(plain),
                  bytes |-> rlpEncodeTransaction(plain) ]
  /\ UNCHANGED << pipelineVars, call, error, normalized, signing, chainIdQueries, plain >>

EncoderNext == Encode

SpecEncoder == EncoderInit /\ [][EncoderNext]_vars

(***************************************************************************)
(* stripLeadingZeros on its own: one byte array                            *)
(***************************************************************************)

\* The longest byte array explored.
MaxBytes == 4

\* The byte arrays explored: empty, all zero, zeros in front, inside and at
\* the end, bytes with the high bit set.
ByteArrays == UNION { [1..n -> { 0, 1, 255 }] : n \in 0..MaxBytes }

StripInit ==
  /\ PipelineIdle
  /\ call = NoCall
  /\ error = NoError
  /\ normalized = NotNormalized
  /\ signing = << >>
  /\ chainIdQueries = 0
  /\ plain \in { [bytes |-> b] : b \in ByteArrays }
  /\ encoded = NotEncoded

\* stripLeadingZeros(byteArray), and stripLeadingZeros of its result.
Strip ==
  /\ ~encoded.done
  /\ encoded' = [ done |-> TRUE, bytes |-> stripLeadingZeros(plain.bytes),
                  again |-> stripLeadingZeros(stripLeadingZeros(plain.bytes)) ]
  /\ UNCHANGED << pipelineVars, call, error, normalized, signing, chainIdQueries, plain >>

SpecStrip == StripInit /\ [][Strip]_vars

(***************************************************************************)
(* signTransaction, submitTransaction and offChainContractCall in detail   *)
(***************************************************************************)

\* The runs on one client that are followed.
Txs == { 1, 2 }

\* The provisional gas limit of the transaction handed to the estimator.
ProvisionalGasLimit == 1000000000

\* {...object, ...changes}
Merge(object, changes) ==
  [ k \in DOMAIN object |-> IF k \in DOMAIN changes THEN changes[k] ELSE object[k] ]

\* What a run sends out: a JSON-RPC request, or a call of a provider.
Request(method, params) == [kind |-> "request", to |-> method, with |-> params]

Callback(provider, argument) == [kind |-> "callback", to |-> provider, with |-> argument]

\* A run of submitTransaction, executeTransaction or offChainContractCall
\* at its start: the caller's partial transaction, nothing resolved,
\* nothing sent, no exchange with the node made.
NewRun(kind, input) ==
  [ pc |-> "from", kind |-> kind, input |-> input,
    from |-> Undefined, gasPrice |-> Undefined, gasLimit |-> Undefined,
    nonce |-> Undefined, chainId |-> Undefined,
    issued |-> << >>, exchanges |-> 0, failed |-> { }, signature |-> NoResult,
    result |-> NoResult, transactionHash |-> Undefined, outcome |-> Running ]

NoRun == Merge(NewRun("none", deployContract.transaction), [pc |-> "idle"])

Issue(run, event) == Merge(run, [issued |-> Append(run.issued, event)])

\* The run rejects with the error of the query or callback of `stage`.
Failed(run, stage, e) ==
  Merge(run, [pc |-> "done", failed |-> run.failed \cup { stage }, outcome |-> Threw(e)])

\* gasEstimatingTransaction / offChainTransaction.
gasEstimatingTransaction(run) ==
  [ from |-> run.from, to |-> run.input.to, value |-> 0, data |-> << >>,
    gasLimit |-> IF Truthy(run.input.gasLimit) THEN run.input.gasLimit
                 ELSE ProvisionalGasLimit,
    gasPrice |-> run.gasPrice ]

unsignedTransaction(run) ==
  [ from |-> run.from, to |-> run.input.to, value |-> 0, data |-> << >>,
    gasLimit |-> run.gasLimit, gasPrice |-> run.gasPrice,
    nonce |-> run.nonce, chainId |-> run.chainId ]

\* What the node answers to eth_signTransaction: the transaction signed
\* with the key of the node, decoded and encoded.
NodeSigned(transaction) ==
  LET decoded == WithSignature(transaction, 35 + 2 * transaction.chainId, 2000, 88)
  IN  [decodedTransaction |-> decoded, encodedTransaction |-> rlpEncodeTransaction(decoded)]

\* What a signature provider resolves with.
Signatures == { [r |-> 1000, s |-> 77, yParity |-> p] : p \in { "even", "odd" } }

\* The caller's partial transactions explored: nothing but to; each
\* optional field given alone, zero included; all given.
SignInputs ==
  { PartialTransaction(to, Undefined, Undefined, Undefined, Undefined) : to \in { Null, 1 } }
  \cup { PartialTransaction(1, f, Undefined, Undefined, Undefined) : f \in { 0, 1 } }
  \cup { PartialTransaction(1, Undefined, 9, Undefined, Undefined) }
  \cup { PartialTransaction(1, Undefined, Undefined, g, Undefined) : g \in { 0, 5 } }
  \cup { PartialTransaction(1, Undefined, Undefined, Undefined, n) : n \in { 0, 7 } }
  \cup { PartialTransaction(1, 1, 9, 5, 7) }

CallInputs ==
  { PartialTransaction(1, f, Undefined, Undefined, Undefined) : f \in { Undefined, 0, 1 } }

\* The constructor, then one run on the client.
ConstructedWith(o) ==
  /\ options = o
  /\ operation = deployContract
  /\ pc = "idle"
  /\ chainIdPromise =
       IF o.chainId # Undefined
         THEN [state |-> "fulfilled", value |-> o.chainId]
         ELSE [state |-> "pending"]
  /\ chainIdQueries = (IF o.chainId # Undefined THEN 0 ELSE 1)
  /\ mined = FALSE
  /\ fetches = 0
  /\ delays = 0
  /\ firstQualifying = NoneYet
  /\ received = { }
  /\ outcome = Running
  /\ call = NoCall
  /\ error = NoError
  /\ normalized = NotNormalized
  /\ plain = NoTransaction
  /\ encoded = NotEncoded

SignInit ==
  /\ \E o \in ClientOptions : ConstructedWith(o)
  /\ \E run \in { NewRun("submitTransaction", i) : i \in SignInputs }
              \cup { NewRun("executeTransaction", public.transaction) :
                       public \in { deployContract, sendEth(1) } }
              \cup { NewRun("offChainContractCall", i) : i \in CallInputs } :
       signing = [t \in Txs |-> IF t = 1 THEN run ELSE NoRun]

signFrame == << pipelineVars, call, error, normalized, chainIdQueries, plain, encoded >>

\* What a stage leaves behind when its value is there: on to the next.
Resolved(run, field, value, next) ==
  Merge(run, [pc |-> next] @@ (field :> value))

\* A coinbase result that is kept as it is.
asIs(value) == value

\* value || 0n
orZero(value) == IF Truthy(value) THEN value ELSE 0

\* from: the caller's if not undefined, else coinbase() (the address
\* provider, or eth_coinbase), a rejection caught and made null, null or
\* zero made 0.
AssembleFrom(t) ==
  /\ signing[t].pc = "from"
  /\ \/ /\ signing[t].input.from # Undefined
        /\ signing' = [signing EXCEPT ![t] =
             Resolved(@, "from", @.input.from, "gasPrice")]
     \/ /\ signing[t].input.from = Undefined
        /\ options.addressProvider
        /\ \E result \in ProviderOutcomes({ 1 }) :
             signing' = [signing EXCEPT ![t] =
               LET run == Issue(@, Callback("addressProvider", << >>))
               IN  IF result.threw
                     THEN Resolved(Merge(run, [failed |-> run.failed \cup { "from" }]),
                                   "from", orZero(Null), "gasPrice")
                     ELSE Resolved(run, "from", orZero(result.value), "gasPrice")]
     \/ /\ signing[t].input.from = Undefined
        /\ ~options.addressProvider
        /\ \E response \in Responses({ Value(Null), Value(1) }) :
             signing' = [signing EXCEPT ![t] =
               Const(remoteProcedureCall(WireRequest("eth_coinbase"), response), LAMBDA result :
               Const(Merge(Issue(signing[t], Request("eth_coinbase", << >>)),
                           [exchanges |-> signing[t].exchanges + result.exchanges]),
                     LAMBDA run :
                 IF result.threw
                     THEN Resolved(Merge(run, [failed |-> run.failed \cup { "from" }]),
                                   "from", orZero(Null), "gasPrice")
                     ELSE Resolved(run, "from", orZero(result.result.value), "gasPrice")))]
  /\ UNCHANGED signFrame

\* gasPrice: the caller's if truthy, else getGasPrice() (the gas price
\* provider, or eth_gasPrice).
AssembleGasPrice(t) ==
  /\ signing[t].pc = "gasPrice"
  /\ LET next == IF signing[t].kind = "offChainContractCall" THEN "call" ELSE "gasLimit"
     IN  \/ /\ Truthy(signing[t].input.gasPrice)
            /\ signing' = [signing EXCEPT ![t] =
                 Resolved(@, "gasPrice", @.input.gasPrice, next)]
         \/ /\ ~Truthy(signing[t].input.gasPrice)
            /\ options.gasPriceInAttoethProvider
            /\ \E result \in ProviderOutcomes({ 2 }) :
                 signing' = [signing EXCEPT ![t] =
                   LET run == Issue(@, Callback("gasPriceInAttoethProvider", << >>))
                   IN  IF result.threw
                         THEN Failed(run, "gasPrice", result.error)
                         ELSE Resolved(run, "gasPrice", result.value, next)]
         \/ /\ ~Truthy(signing[t].input.gasPrice)
            /\ ~options.gasPriceInAttoethProvider
            /\ \E response \in Responses({ Value(2) }) :
                 signing' = [signing EXCEPT ![t] =
                   Const(remoteProcedureCall(WireRequest("eth_gasPrice"), response), LAMBDA result :
                   Const(Merge(Issue(signing[t], Request("eth_gasPrice", << >>)),
                               [exchanges |-> signing[t].exchanges + result.exchanges]),
                         LAMBDA run :
                     IF result.threw
                         THEN Failed(run, "gasPrice", result.error)
                         ELSE Resolved(run, "gasPrice", result.result.value, next)))]
  /\ UNCHANGED signFrame

\* gasLimit: the caller's if truthy, else gasLimitProvider on the gas
\* estimating transaction; the default provider awaits estimateGas.
AssembleGasLimit(t) ==
  /\ signing[t].pc = "gasLimit"
  /\ \/ /\ Truthy(signing[t].input.gasLimit)
        /\ signing' = [signing EXCEPT ![t] =
             Resolved(@, "gasLimit", @.input.gasLimit, "nonce")]
     \/ /\ ~Truthy(signing[t].input.gasLimit)
        /\ options.gasLimitProvider
        /\ \E result \in ProviderOutcomes({ 3 }) :
             signing' = [signing EXCEPT ![t] =
               LET run == Issue(@, Callback("gasLimitProvider", gasEstimatingTransaction(@)))
               IN  IF result.threw
                     THEN Failed(run, "gasLimit", result.error)
                     ELSE Resolved(run, "gasLimit", result.value, "nonce")]
     \/ /\ ~Truthy(signing[t].input.gasLimit)
        /\ ~options.gasLimitProvider
        /\ \E response \in Responses({ Value(3) }) :
             signing' = [signing EXCEPT ![t] =
               Const(remoteProcedureCall(WireRequest("eth_estimateGas"), response), LAMBDA result :
               Const(Merge(Issue(signing[t], Request("eth_estimateGas", gasEstimatingTransaction(signing[t]))),
                           [exchanges |-> signing[t].exchanges + result.exchanges]),
                     LAMBDA run :
                 IF result.threw
                     THEN Failed(run, "gasLimit", result.error)
                     ELSE Resolved(run, "gasLimit", result.result.value, "nonce")))]
  /\ UNCHANGED signFrame

\* A nonce stage that adds to the count of the node the transactions of
\* the sender this client has given a nonce and not yet submitted.
AssembleNonceReserving(t) ==
  /\ signing[t].pc = "nonce"
  /\ \/ /\ Truthy(signing[t].input.nonce)
        /\ signing' = [signing EXCEPT ![t] = Resolved(@, "nonce", @.input.nonce, "chainId")]
     \/ /\ ~Truthy(signing[t].input.nonce)
        /\ \E response \in Responses({ Value(4 + Cardinality(
               { u \in Txs : /\ signing[u].from = signing[t].from
                             /\ signing[u].nonce # Undefined }) ) }) :
             signing' = [signing EXCEPT ![t] =
               Const(remoteProcedureCall(WireRequest("eth_getTransactionCount"), response), LAMBDA result :
               Const(Merge(Issue(signing[t], Request("eth_getTransactionCount", << signing[t].from, "pending" >>)),
                           [exchanges |-> signing[t].exchanges + result.exchanges]),
                     LAMBDA run :
                 IF result.threw
                     THEN Failed(run, "nonce", result.error)
                     ELSE Resolved(run, "nonce", result.result.value, "chainId")))]
  /\ UNCHANGED signFrame

\* nonce: the caller's if truthy, else getTransactionCount(from, pending).
\* The node counts 4 transactions of every sender at the start, and one
\* more for each transaction of the sender it has accepted since.
AssembleNonce(t) ==
  /\ signing[t].pc = "nonce"
  /\ \/ /\ Truthy(signing[t].input.nonce)
        /\ signing' = [signing EXCEPT ![t] = Resolved(@, "nonce", @.input.nonce, "chainId")]
     \/ /\ ~Truthy(signing[t].input.nonce)
        /\ \E response \in Responses({ Value(4 + Cardinality(
               { u \in Txs : /\ signing[u].from = signing[t].from
                             /\ signing[u].transactionHash # Undefined }) ) }) :
             signing' = [signing EXCEPT ![t] =
               Const(remoteProcedureCall(WireRequest("eth_getTransactionCount"), response), LAMBDA result :
               Const(Merge(Issue(signing[t], Request("eth_getTransactionCount", << signing[t].from, "pending" >>)),
                           [exchanges |-> signing[t].exchanges + result.exchanges]),
                     LAMBDA run :
                 IF result.threw
                     THEN Failed(run, "nonce", result.error)
                     ELSE Resolved(run, "nonce", result.result.value, "chainId")))]
  /\ UNCHANGED signFrame

\* A chainId stage that asks the node each time.
AssembleChainIdAfresh(t) ==
  /\ signing[t].pc = "chainId"
  /\ chainIdQueries' = chainIdQueries + 1
  /\ signing' = [signing EXCEPT ![t] =
       Resolved(Issue(@, Request("eth_chainId", << >>)), "chainId", 1, "sign")]
  /\ UNCHANGED << pipelineVars, call, error, normalized, plain, encoded >>

\* A chainId stage that takes the chain id as it is when the run gets
\* there, settled or not.
AssembleChainIdUnsettled(t) ==
  /\ signing[t].pc = "chainId"
  /\ signing' = [signing EXCEPT ![t] =
       Resolved(@, "chainId",
                IF chainIdPromise.state = "fulfilled" THEN chainIdPromise.value ELSE Undefined,
                "sign")]
  /\ UNCHANGED signFrame

\* A chainId stage that asks the node again when the constructor's query
\* was rejected.
AssembleChainIdAskingAgain(t) ==
  /\ signing[t].pc = "chainId"
  /\ \/ /\ chainIdPromise.state = "fulfilled"
        /\ signing' = [signing EXCEPT ![t] =
             Resolved(@, "chainId", chainIdPromise.value, "sign")]
        /\ UNCHANGED chainIdQueries
     \/ /\ chainIdPromise.state = "rejected"
        /\ chainIdQueries' = chainIdQueries + 1
        /\ signing' = [signing EXCEPT ![t] =
             Resolved(Issue(@, Request("eth_chainId", << >>)), "chainId", 1, "sign")]
  /\ UNCHANGED << pipelineVars, call, error, normalized, plain, encoded >>

\* chainId: await this.chainId, the promise made by the constructor.
AssembleChainId(t) ==
  /\ signing[t].pc = "chainId"
  /\ \/ /\ chainIdPromise.state = "fulfilled"
        /\ signing' = [signing EXCEPT ![t] =
             Resolved(@, "chainId", chainIdPromise.value, "sign")]
     \/ /\ chainIdPromise.state = "rejected"
        /\ signing' = [signing EXCEPT ![t] = Failed(@, "chainId", chainIdPromise.error)]
  /\ UNCHANGED signFrame

\* A client that always signs at the node.
alwaysUndefined(provider) == TRUE

\* this.signatureProvider === undefined
isUndefined(provider) == ~provider

\* A v in the style of encodeSignature.
deriveVLegacy(signature, chainId) ==
  (IF signature.yParity = "even" THEN 0 ELSE 1) + 27

\* v = (yParity even ? 0 : 1) + 35 + 2 * chainId
deriveV(signature, chainId) ==
  (IF signature.yParity = "even" THEN 0 ELSE 1) + 35 + 2 * chainId

\* The end of signTransaction: eth_signTransaction on the unsigned
\* transaction, or the signature provider on its encoding, v derived, and
\* the signed transaction encoded.
Signature(t) ==
  /\ signing[t].pc = "sign"
  /\ \/ /\ isUndefined(options.signatureProvider)
        /\ \E response \in Responses({ Value(NodeSigned(unsignedTransaction(signing[t]))) }) :
             signing' = [signing EXCEPT ![t] =
               Const(remoteProcedureCall(WireRequest("eth_signTransaction"), response), LAMBDA result :
               Const(Merge(Issue(signing[t], Request("eth_signTransaction", unsignedTransaction(signing[t]))),
                           [exchanges |-> signing[t].exchanges + result.exchanges]),
                     LAMBDA run :
                 IF result.threw
                     THEN Failed(run, "sign", result.error)
                     ELSE Merge(run, [pc |-> "send", result |-> result.result.value])))]
     \/ /\ ~isUndefined(options.signatureProvider)
        /\ \E provided \in ProviderOutcomes(Signatures) :
             signing' = [signing EXCEPT ![t] =
               LET unsigned == unsignedTransaction(@)
                   run == Issue(@, Callback("signatureProvider", rlpEncodeTransaction(unsigned)))
               IN  IF provided.threw
                     THEN Failed(run, "sign", provided.error)
                     ELSE LET decoded ==
                                WithSignature(unsigned,
                                  deriveV(provided.value, unsigned.chainId),
                                  provided.value.r, provided.value.s)
                          IN  Merge(run,
                                [ pc |-> "send", signature |-> provided.value,
                                  result |-> [ decodedTransaction |-> decoded,
                                               encodedTransaction |->
                                                 rlpEncodeTransaction(decoded) ] ])]
  /\ UNCHANGED signFrame

\* submitTransaction after signTransaction: sendRawTransaction, whose
\* result executeTransaction keeps as transactionHash.
Submit(t) ==
  /\ signing[t].pc = "send"
  /\ \E response \in Responses({ Value(9), Value(10) }) :
       signing' = [signing EXCEPT ![t] =
         Const(remoteProcedureCall(WireRequest("eth_sendRawTransaction"), response), LAMBDA result :
         Const(Merge(Issue(signing[t], Request("eth_sendRawTransaction", signing[t].result.encodedTransaction)),
                     [exchanges |-> signing[t].exchanges + result.exchanges]),
               LAMBDA run :
           IF result.threw
               THEN Failed(run, "send", result.error)
             ELSE IF run.kind = "executeTransaction"
               THEN Merge(run, [pc |-> "receipt", transactionHash |-> result.result.value])
               ELSE Merge(run, [ pc |-> "done", transactionHash |-> result.result.value,
                                 outcome |-> [kind |-> "returned", value |-> result.result.value] ])))]
  /\ UNCHANGED signFrame

\* One getTransactionReceipt(transactionHash) of executeTransaction and
\* what follows it without suspension: the loop test, then the final
\* checks.
Poll(t) ==
  /\ signing[t].pc = "receipt"
  /\ Len(SelectSeq(signing[t].issued,
                   LAMBDA event : event.to = "eth_getTransactionReceipt")) < MaxPolls
  /\ \E response \in Responses(RawReceipts) :
       signing' = [signing EXCEPT ![t] =
         Const(remoteProcedureCall(WireRequest("eth_getTransactionReceipt"), response), LAMBDA result :
         Const(Merge(Issue(signing[t], Request("eth_getTransactionReceipt", signing[t].transactionHash)),
                     [exchanges |-> signing[t].exchanges + result.exchanges]),
               LAMBDA run :
           IF result.threw
               THEN Failed(run, "receipt", result.error)
             ELSE IF StillPending(getTransactionReceipt(result.result))
               THEN Merge(run, [pc |-> "sleep"])
               ELSE Merge(run, [ pc |-> "done",
                                 outcome |-> Conclude(getTransactionReceipt(result.result),
                                                      run.input.to) ])))]
  /\ UNCHANGED signFrame

\* A polling loop that submits the transaction again after each delay.
DelayThenResubmit(t) ==
  /\ signing[t].pc = "sleep"
  /\ signing' = [signing EXCEPT ![t] =
       Merge(Issue(@, Callback("sleep", 1000)), [pc |-> "send"])]
  /\ UNCHANGED signFrame

\* await sleep(1000) of the polling loop of a run completes.
Delay(t) ==
  /\ signing[t].pc = "sleep"
  /\ signing' = [signing EXCEPT ![t] =
       Merge(Issue(@, Callback("sleep", 1000)), [pc |-> "receipt"])]
  /\ UNCHANGED signFrame

\* offChainContractCall after its transaction is made: call.
OffChainCall(t) ==
  /\ signing[t].pc = "call"
  /\ \E response \in Responses({ Value(<< 1 >>) }) :
       signing' = [signing EXCEPT ![t] =
         Const(remoteProcedureCall(WireRequest("eth_call"), response), LAMBDA result :
         Const(Merge(Issue(signing[t], Request("eth_call", gasEstimatingTransaction(signing[t]))),
                     [exchanges |-> signing[t].exchanges + result.exchanges]),
               LAMBDA run :
           IF result.threw
               THEN Failed(run, "call", result.error)
               ELSE Merge(run, [ pc |-> "done",
                                 outcome |-> [kind |-> "returned", value |-> result.result.value] ])))]
  /\ UNCHANGED signFrame

SignNext ==
  \/ ChainIdSettles
  \/ \E t \in Txs : AssembleFrom(t)
  \/ \E t \in Txs : AssembleGasPrice(t)
  \/ \E t \in Txs : AssembleGasLimit(t)
  \/ \E t \in Txs : AssembleNonce(t)
  \/ \E t \in Txs : AssembleChainId(t)
  \/ \E t \in Txs : Signature(t)
  \/ \E t \in Txs : Submit(t)
  \/ \E t \in Txs : Poll(t)
  \/ \E t \in Txs : Delay(t)
  \/ \E t \in Txs : OffChainCall(t)

SpecSign == SignInit /\ [][SignNext]_vars

\* Two runs on one client, started together: a submitTransaction next to
\* an offChainContractCall or a second submitTransaction; and, on a
\* client without providers for gas, an executeTransaction next to a
\* submitTransaction of the same sender, both leaving the nonce to the
\* node.
ClientInit ==
  \/ /\ \E o \in { c \in ClientOptions : ~c.addressProvider } : ConstructedWith(o)
     /\ \E first \in { NewRun("submitTransaction", PartialTransaction(1, 1, 9, 5, 7)),
                       NewRun("submitTransaction",
                              PartialTransaction(Null, 1, Undefined, Undefined, Undefined)),
                       NewRun("offChainContractCall",
                              PartialTransaction(1, 1, 9, Undefined, Undefined)) } :
          signing = [ t \in Txs |->
                        IF t = 1 THEN first
                        ELSE NewRun("submitTransaction", PartialTransaction(1, 0, 9, 5, 7)) ]
  \/ /\ \E o \in { c \in ClientOptions : ~c.addressProvider /\ ~c.gasLimitProvider } :
          ConstructedWith(o)
     /\ signing = [ t \in Txs |->
                      NewRun(IF t = 1 THEN "executeTransaction" ELSE "submitTransaction",
                             PartialTransaction(1, 1, 9, 5, Undefined)) ]

SpecClient == ClientInit /\ [][SignNext]_vars

(***************************************************************************)
(* Properties of the canonical encoder                                     *)
(***************************************************************************)

RECURSIVE BigEndianValue(_)
BigEndianValue(bytes) ==
  IF bytes = << >>
    THEN 0
    ELSE 256 * BigEndianValue(SubSeq(bytes, 1, Len(bytes) - 1)) + bytes[Len(bytes)]

\* The item is the shortest big-endian byte string of n: no leading zero
\* byte, and the empty byte string for zero.
IsMinimal(item, n) ==
  /\ BigEndianValue(item) = n
  /\ item = << >> \/ item[1] # 0

\* C19: rlpEncodeTransaction hands rlpEncode exactly nine items in the
\* order nonce, gasPrice, gasLimit, to, value, data, then chainId, empty,
\* empty for an unsigned transaction or v, r, s for a signed one; every
\* integer item is minimal big-endian, data is passed byte for byte, and
\* the transaction counts as signed exactly when it carries r.
C19_NineItemsInOrder ==
  encoded.done =>
    LET items == encoded.items
    IN  /\ Len(items) = 9
        /\ IsMinimal(items[1], plain.nonce)
        /\ IsMinimal(items[2], plain.gasPrice)
        /\ IsMinimal(items[3], plain.gasLimit)
        /\ BigEndianValue(items[4]) = (IF plain.to = Null THEN 0 ELSE plain.to)
        /\ IsMinimal(items[5], plain.value)
        /\ items[6] = plain.data
        /\ IF "r" \in DOMAIN plain
             THEN /\ IsMinimal(items[7], plain.v)
                  /\ IsMinimal(items[8], plain.r)
                  /\ IsMinimal(items[9], plain.s)
             ELSE /\ IsMinimal(items[7], plain.chainId)
                  /\ items[8] = << >>
                  /\ items[9] = << >>
        /\ encoded.bytes = rlpEncode(items)

C19_Witness ==
  /\ encoded.done
  /\ "r" \in DOMAIN plain
  /\ plain.nonce = 128
  /\ plain.gasPrice = 0
  /\ plain.r = 0
  /\ plain.data = << 0, 1 >>
  /\ encoded.items[1] = << 128 >>
  /\ encoded.items[2] = << >>
  /\ encoded.items[7] = << plain.v >>

\* C20: the to item is the empty byte string when to is null and the
\* address at its fixed width of 20 bytes, leading zero bytes kept, when
\* to is not null; so the to item is empty exactly for a creation.
C20_ToItemFixedWidth ==
  encoded.done =>
    /\ plain.to = Null => encoded.items[4] = << >>
    /\ plain.to # Null => Len(encoded.items[4]) = 20
    /\ encoded.items[4] = << >> <=> plain.to = Null

\* The transaction a signature was attached to: the signed one without
\* v, r and s.
WithoutSignature(transaction) ==
  [ k \in DOMAIN transaction \ { "v", "r", "s" } |-> transaction[k] ]

\* The fields a decoder reads from the nine items of a signed encoding:
\* quantities by their big-endian value, an empty to item as a creation.
DecodeItems(items) ==
  [ nonce |-> BigEndianValue(items[1]),
    gasPrice |-> BigEndianValue(items[2]),
    gasLimit |-> BigEndianValue(items[3]),
    to |-> IF items[4] = << >> THEN Null ELSE BigEndianValue(items[4]),
    value |-> BigEndianValue(items[5]),
    data |-> items[6],
    v |-> BigEndianValue(items[7]),
    r |-> BigEndianValue(items[8]),
    s |-> BigEndianValue(items[9]) ]

\* C21: decoding the items of the encoding of a signed transaction gives
\* back nonce, gasPrice, gasLimit, to (null or the address), value and
\* data of the transaction that was signed, and the r, s and v attached;
\* its first six items are the first six items of the encoding of the
\* unsigned transaction.
C21_RoundTrip ==
  (encoded.done /\ isSignedTransaction(plain)) =>
    LET decoded == DecodeItems(encoded.items)
    IN  /\ \A k \in DOMAIN decoded : decoded[k] = plain[k]
        /\ SubSeq(encoded.items, 1, 6)
             = SubSeq(toEncode(WithoutSignature(plain)), 1, 6)

\* C27: stripLeadingZeros(b) is b without its longest leading run of zero
\* bytes, the bytes after the run unchanged and in order: what is dropped
\* is all zero, what is kept is the rest of b and does not start with a
\* zero byte, an empty or all-zero b gives the empty array; and stripping
\* the result again changes nothing.
C27_StripLeadingZeros ==
  encoded.done =>
    LET b == plain.bytes
        r == encoded.bytes
        k == Len(b) - Len(r)
    IN  /\ k >= 0
        /\ \A j \in 1..k : b[j] = 0
        /\ r = SubSeq(b, k + 1, Len(b))
        /\ r = << >> \/ r[1] # 0
        /\ (\A j \in 1..Len(b) : b[j] = 0) => r = << >>
        /\ encoded.again = r

\* Two zero bytes in front of a byte, and a zero byte after it, stripped.
C27_Witness ==
  /\ encoded.done
  /\ plain.bytes = << 0, 0, 255, 0 >>
  /\ encoded.bytes = << 255, 0 >>

(***************************************************************************)
(* Properties of assembling and signing                                    *)
(***************************************************************************)

\* The places in what a run sent out where `name` was addressed.
Sent(run, name) == { i \in 1..Len(run.issued) : run.issued[i].to = name }

Runs == { signing[t] : t \in Txs }

Submitting == { run \in Runs : run.kind = "submitTransaction" }

\* C11: whenever a remote query or a provider callback of a run fails, the
\* default account query and the chain id query included, the run ends
\* in an error the caller sees and never goes on with a substituted value.
C11_NoErrorSwallowed ==
  \A run \in Runs :
    /\ run.failed # { } => run.pc = "done" /\ run.outcome.kind = "thrown"
    /\ run.pc \in { "sign", "send" } => chainIdPromise.state = "fulfilled"

\* C12: a nonce the caller supplies, zero included, is the nonce of the
\* assembled and signed transaction and no pending transaction count is
\* asked for; only without one is the nonce the count the node gives for
\* the resolved from.
C12_NonceResolution ==
  \A run \in Submitting :
    run.nonce # Undefined =>
      /\ run.result # NoResult => run.result.decodedTransaction.nonce = run.nonce
      /\ IF run.input.nonce # Undefined
           THEN /\ run.nonce = run.input.nonce
                /\ Sent(run, "eth_getTransactionCount") = { }
           ELSE /\ run.nonce = 4
                /\ \E i \in 1..Len(run.issued) :
                     /\ Sent(run, "eth_getTransactionCount") = { i }
                     /\ run.issued[i].with = << run.from, "pending" >>

\* C13: without a gas limit from the caller, the gas limit signed and
\* submitted is what the gas limit provider (by default the estimate of
\* the node) returned, and the provisional 1,000,000,000 is only in the
\* transaction handed to the provider or estimator; with a gas limit from
\* the caller, that one is signed and the provider is not invoked.
C13_CeilingNeverBroadcast ==
  \A run \in Submitting :
    run.gasLimit # Undefined =>
      /\ run.result # NoResult => run.result.decodedTransaction.gasLimit = run.gasLimit
      /\ IF run.input.gasLimit # Undefined
           THEN /\ run.gasLimit = run.input.gasLimit
                /\ Sent(run, "gasLimitProvider") \cup Sent(run, "eth_estimateGas") = { }
           ELSE /\ run.gasLimit = 3
                /\ \E i \in 1..Len(run.issued) :
                     /\ Sent(run, "gasLimitProvider") \cup Sent(run, "eth_estimateGas") = { i }
                     /\ run.issued[i].with.gasLimit = ProvisionalGasLimit

\* C14: in signTransaction and offChainContractCall a from the caller
\* supplies, zero included, is used as it is and no address is asked for;
\* else from comes from the address provider if there is one and from
\* eth_coinbase if not, never from both, and is zero when that gives null.
C14_FromResolution ==
  \A run \in Runs :
    run.from # Undefined =>
      /\ IF run.input.from # Undefined
           THEN /\ run.from = run.input.from
                /\ Sent(run, "addressProvider") \cup Sent(run, "eth_coinbase") = { }
           ELSE /\ Cardinality(Sent(run, IF options.addressProvider
                                           THEN "addressProvider" ELSE "eth_coinbase")) = 1
                /\ Sent(run, IF options.addressProvider
                               THEN "eth_coinbase" ELSE "addressProvider") = { }
                /\ run.from \in { 0, 1 }
                /\ (options.addressProvider /\ "from" \notin run.failed) => run.from = 1
      /\ \A i \in Sent(run, "eth_call") \cup Sent(run, "eth_estimateGas")
                    \cup Sent(run, "eth_signTransaction") :
           run.issued[i].with.from = run.from

\* The node answered the default account query with null (no failure),
\* and the call went out with from zero.
C14_Witness ==
  \E run \in Runs :
    /\ run.kind = "offChainContractCall"
    /\ run.input.from = Undefined
    /\ ~options.addressProvider
    /\ run.failed = { }
    /\ run.from = 0
    /\ Sent(run, "eth_call") # { }

\* C15: the chain id is resolved at most once in the life of a client:
\* over the runs on it, in any interleaving, the client sends at most one
\* eth_chainId request of its own, none when the chain id was given to
\* the constructor, and every assembled transaction carries the same
\* chain id.
C15_ChainIdOnce ==
  /\ chainIdQueries <= 1
  /\ options.chainId # Undefined => chainIdQueries = 0
  /\ \A run \in Runs :
       /\ Sent(run, "eth_chainId") = { }
       /\ run.chainId # Undefined =>
            /\ chainIdPromise.state = "fulfilled"
            /\ run.chainId = chainIdPromise.value
            /\ options.chainId # Undefined => run.chainId = options.chainId
            /\ run.result # NoResult => run.result.decodedTransaction.chainId = run.chainId
  /\ \A a, b \in Runs :
       (a.chainId # Undefined /\ b.chainId # Undefined) => a.chainId = b.chainId

C15_Witness ==
  /\ options.chainId = Undefined
  /\ chainIdQueries = 1
  /\ \A t \in Txs :
       /\ signing[t].kind = "submitTransaction"
       /\ signing[t].pc = "done"
       /\ signing[t].outcome.kind = "returned"
       /\ signing[t].chainId = 1

\* The minimal big-endian bytes of a quantity, as an item of the list.
Quantity(n) == stripLeadingZeros(fromUnsignedInteger(n, 256))

\* The first six items of the encoding of a transaction.
SixItems(transaction) == SubSeq(toEncode(transaction), 1, 6)

\* C16: with a signature provider, a run invokes it exactly once, on the
\* canonical encoding of the assembled unsigned transaction (trailer
\* chainId, empty, empty); encodedTransaction is the canonical encoding of
\* that transaction with v, r, s, and those are the bytes handed to
\* sendRawTransaction.
C16_LocalSigning ==
  \A run \in Submitting :
    (options.signatureProvider /\ run.result # NoResult) =>
      LET unsigned == unsignedTransaction(run)
          decoded == run.result.decodedTransaction
      IN  /\ \E i \in 1..Len(run.issued) :
               /\ Sent(run, "signatureProvider") = { i }
               /\ run.issued[i].with =
                    rlpEncode(SixItems(unsigned)
                                \o << Quantity(unsigned.chainId), << >>, << >> >>)
          /\ decoded = WithSignature(unsigned, decoded.v, run.signature.r, run.signature.s)
          /\ run.result.encodedTransaction =
               rlpEncode(SixItems(unsigned)
                           \o << Quantity(decoded.v), Quantity(decoded.r), Quantity(decoded.s) >>)
          /\ Cardinality(Sent(run, "eth_sendRawTransaction")) <= 1
          /\ \A i \in Sent(run, "eth_sendRawTransaction") :
               run.issued[i].with = run.result.encodedTransaction
          /\ run.outcome.kind = "returned" => Sent(run, "eth_sendRawTransaction") # { }

C16_Witness ==
  \E run \in Submitting :
    /\ options.signatureProvider
    /\ run.outcome.kind = "returned"
    /\ run.signature.yParity = "odd"
    /\ Cardinality(Sent(run, "signatureProvider")) = 1
    /\ \E i \in Sent(run, "eth_sendRawTransaction") :
         run.issued[i].with = run.result.encodedTransaction

Parity(signature) == IF signature.yParity = "even" THEN 0 ELSE 1

\* C17 as stated: v = parity + 35 + 2 * chainId, parity 0 for even and 1
\* for odd, with the chain id of the same unsigned transaction, which for
\* chain id 1 is to give 35 for even and 36 for odd.
C17_VAsStated ==
  \A run \in Submitting :
    run.signature # NoResult =>
      LET decoded == run.result.decodedTransaction
      IN  /\ decoded.v = Parity(run.signature) + 35 + 2 * run.chainId
          /\ decoded.v - 35 - 2 * decoded.chainId \in { 0, 1 }
          /\ decoded.chainId = 1 => decoded.v = 35 + Parity(run.signature)

\* C17, amended: v = parity + 35 + 2 * chainId, parity 0 for even and 1
\* for odd, with the chain id of the same unsigned transaction; for chain
\* id 1 that is 37 for even and 38 for odd; v - 35 - 2 * chainId is 0 or 1.
C17_VDerivation ==
  \A run \in Submitting :
    run.signature # NoResult =>
      LET decoded == run.result.decodedTransaction
      IN  /\ decoded.chainId = run.chainId
          /\ decoded.v = Parity(run.signature) + 35 + 2 * run.chainId
          /\ decoded.v - 35 - 2 * decoded.chainId \in { 0, 1 }
          /\ decoded.chainId = 1 => decoded.v = 37 + Parity(run.signature)

C17_Witness ==
  \E run \in Submitting :
    /\ run.signature # NoResult
    /\ run.signature.yParity = "odd"
    /\ run.chainId = 1
    /\ run.result.decodedTransaction.v = 38

\* C18: the way of signing is fixed by the constructor.  With a signature
\* provider no run sends eth_signTransaction; without one no run calls a
\* signature provider, a run that signed has sent exactly one
\* eth_signTransaction with the whole unsigned transaction, and what it
\* submits is the encoded form the node returned.
C18_SigningStrategies ==
  /\ [][options' = options]_vars
  /\ [](\A run \in Submitting :
          IF options.signatureProvider
            THEN Sent(run, "eth_signTransaction") = { }
            ELSE /\ Sent(run, "signatureProvider") = { }
                 /\ run.signature = NoResult
                 /\ run.result # NoResult =>
                      /\ \E i \in 1..Len(run.issued) :
                           /\ Sent(run, "eth_signTransaction") = { i }
                           /\ run.issued[i].with = unsignedTransaction(run)
                      /\ run.result = NodeSigned(unsignedTransaction(run))
                      /\ \A i \in Sent(run, "eth_sendRawTransaction") :
                           run.issued[i].with =
                             NodeSigned(unsignedTransaction(run)).encodedTransaction)

C18_Witness ==
  \E run \in Submitting :
    /\ ~options.signatureProvider
    /\ run.outcome.kind = "returned"
    /\ Cardinality(Sent(run, "eth_signTransaction")) = 1
    /\ Cardinality(Sent(run, "eth_sendRawTransaction")) = 1

\* The stage of executeTransaction a request or callback belongs to:
\* assembling (1), signing (2), submitting (3), polling (4).
StageOf(event) ==
  IF event.to \in { "eth_signTransaction", "signatureProvider" } THEN 2
  ELSE IF event.to = "eth_sendRawTransaction" THEN 3
  ELSE IF event.to \in { "eth_getTransactionReceipt", "sleep" } THEN 4
  ELSE 1

\* The stage a run was rejected in (0 when it was not): a rejected
\* default account query is caught inside the assembly and rejects no
\* stage.
RejectedIn(run) ==
  IF run.failed \cap { "gasPrice", "gasLimit", "nonce", "chainId" } # { } THEN 1
  ELSE IF "sign" \in run.failed THEN 2
  ELSE IF "send" \in run.failed THEN 3
  ELSE IF "receipt" \in run.failed THEN 4
  ELSE 0

Executing == { run \in Runs : run.kind \in { "submitTransaction", "executeTransaction" } }

\* C22: the stages of one executeTransaction follow one another.  What a
\* run sends out is ordered assembling, signing, submitting, polling; the
\* signature is asked for once and only when from, gas price, gas limit,
\* nonce and chain id are all there; eth_sendRawTransaction is sent at
\* most once, only when the signed transaction is there, and never again
\* while polling; every receipt request carries the hash that submission
\* returned; and a run rejected in a stage has sent nothing of a later
\* stage and sends nothing more.
C22_StagesSequential ==
  /\ [][\A t \in Txs : signing[t].pc = "done" => signing'[t] = signing[t]]_vars
  /\ [](\A run \in Executing :
          /\ \A i, j \in 1..Len(run.issued) :
               i < j => StageOf(run.issued[i]) <= StageOf(run.issued[j])
          /\ Cardinality(Sent(run, "eth_signTransaction")
                           \cup Sent(run, "signatureProvider")) <= 1
          /\ Sent(run, "eth_signTransaction") \cup Sent(run, "signatureProvider") # { } =>
               /\ Undefined \notin { run.from, run.gasPrice, run.gasLimit,
                                      run.nonce, run.chainId }
               /\ chainIdPromise.state = "fulfilled"
          /\ Cardinality(Sent(run, "eth_sendRawTransaction")) <= 1
          /\ \A i \in Sent(run, "eth_sendRawTransaction") :
               /\ run.result # NoResult
               /\ run.issued[i].with = run.result.encodedTransaction
          /\ \A i \in Sent(run, "eth_getTransactionReceipt") :
               /\ run.kind = "executeTransaction"
               /\ run.transactionHash \in { 9, 10 }
               /\ run.issued[i].with = run.transactionHash
               /\ \E k \in Sent(run, "eth_sendRawTransaction") : k < i
          /\ RejectedIn(run) # 0 =>
               /\ run.pc = "done"
               /\ run.outcome.kind = "thrown"
               /\ \A i \in 1..Len(run.issued) : StageOf(run.issued[i]) <= RejectedIn(run))

\* An executeTransaction that assembled with the node, signed, submitted
\* once, polled, slept, polled again with the same hash, and returned.
C22_Witness ==
  \E run \in Executing :
    /\ run.kind = "executeTransaction"
    /\ run.outcome.kind = "returned"
    /\ run.transactionHash = 10
    /\ Sent(run, "eth_getTransactionCount") # { }
    /\ Cardinality(Sent(run, "eth_sendRawTransaction")) = 1
    /\ Cardinality(Sent(run, "eth_getTransactionReceipt")) = 2
    /\ Cardinality(Sent(run, "sleep")) = 1

\* C24: remoteProcedureCall never retries.  However a call ends (result,
\* transport error, protocol error, RPC error), it made one exchange, so
\* the exchanges made for a run are as many as the requests it sent; and
\* a receipt request that fails ends executeTransaction with the error of
\* that call, the failed request being the last thing the run sends.
C24_NoRetry ==
  /\ [][\A t \in Txs : "receipt" \in signing[t].failed => signing'[t] = signing[t]]_vars
  /\ [](\A run \in Runs :
          /\ run.exchanges =
               Cardinality({ i \in 1..Len(run.issued) : run.issued[i].kind = "request" })
          /\ "receipt" \in run.failed =>
               /\ run.pc = "done"
               /\ run.issued[Len(run.issued)].to = "eth_getTransactionReceipt"
               /\ \E response \in Responses(RawReceipts) :
                    LET result ==
                          remoteProcedureCall(WireRequest("eth_getTransactionReceipt"), response)
                    IN  result.threw /\ run.outcome = Threw(result.error))

\* A second receipt request met a failed exchange and the run ended in
\* the transport error, every request of the run having made one exchange.
C24_Witness ==
  \E run \in Runs :
    /\ run.failed = { "receipt" }
    /\ Cardinality(Sent(run, "eth_getTransactionReceipt")) = 2
    /\ run.outcome.kind = "thrown"
    /\ run.outcome.error.name = "ErrorWithData"
    /\ run.outcome.error.message[1] = "500"
    /\ run.exchanges >= 4

\* The requests for a signature a run has sent.
SignRequests(run) == Sent(run, "eth_signTransaction") \cup Sent(run, "signatureProvider")

\* C23: runs on one client race on the chain id of the constructor
\* without harm.  In every interleaving of the runs and the answer to
\* the chain id query, a chain id once settled stays as it is, every run
\* that has a chain id has that one, so all runs the same, and no run
\* asks for a signature, or holds a signed transaction, without it: what
\* is signed carries the settled chain id.
C23_ChainIdRaceSafe ==
  /\ [][chainIdPromise.state # "pending" => chainIdPromise' = chainIdPromise]_vars
  /\ [](\A run \in Runs :
          /\ run.chainId # Undefined =>
               chainIdPromise.state = "fulfilled" /\ run.chainId = chainIdPromise.value
          /\ (run.pc \in { "sign", "send", "receipt", "sleep" }
                \/ SignRequests(run) # { } \/ run.result # NoResult) =>
               /\ chainIdPromise.state = "fulfilled"
               /\ run.chainId = chainIdPromise.value
          /\ \A i \in Sent(run, "eth_signTransaction") :
               run.issued[i].with.chainId = chainIdPromise.value
          /\ \A i \in Sent(run, "signatureProvider") :
               run.issued[i].with =
                 rlpEncode(SixItems(unsignedTransaction(run))
                             \o << Quantity(chainIdPromise.value), << >>, << >> >>)
          /\ run.result # NoResult =>
               run.result.decodedTransaction.chainId = chainIdPromise.value)

\* The chain id came from the node, and an executeTransaction and a
\* submitTransaction on the client both hold a transaction signed with it.
C23_Witness ==
  /\ options.chainId = Undefined
  /\ chainIdPromise.state = "fulfilled"
  /\ signing[1].kind = "executeTransaction"
  /\ signing[2].kind = "submitTransaction"
  /\ \A t \in Txs :
       /\ signing[t].result # NoResult
       /\ signing[t].result.decodedTransaction.chainId = 1

\* C25 as stated: once the chain id query of the constructor has failed,
\* no further chain id query is issued and every run of signTransaction
\* or executeTransaction on the client that ends has ended in the error of
\* that query, its assembly queries made, nothing signed or submitted.
C25_AsStated ==
  chainIdPromise.state = "rejected" =>
    /\ chainIdQueries = 1
    /\ \A run \in Executing :
         /\ SignRequests(run) \cup Sent(run, "eth_sendRawTransaction") = { }
         /\ run.pc = "done" =>
              /\ run.outcome = Threw(chainIdPromise.error)
              /\ Undefined \notin { run.from, run.gasPrice, run.gasLimit, run.nonce }

\* C25, amended: a failed chain id query of the constructor stays failed
\* and no further chain id query is issued; no run of signTransaction or
\* executeTransaction on the client gets to sign or submit, and each that
\* ends has failed: in the error of the chain id query, its assembly
\* queries made, or else in the error of its own gas price, gas limit or
\* nonce query.
C25_ChainIdFailurePermanent ==
  /\ [][chainIdPromise.state = "rejected" =>
         chainIdPromise' = chainIdPromise /\ chainIdQueries' = chainIdQueries]_vars
  /\ [](chainIdPromise.state = "rejected" =>
          /\ options.chainId = Undefined
          /\ chainIdQueries = 1
          /\ \A run \in Executing :
               /\ SignRequests(run) \cup Sent(run, "eth_sendRawTransaction") = { }
               /\ run.result = NoResult
               /\ run.pc \in { "from", "gasPrice", "gasLimit", "nonce", "chainId", "done" }
               /\ run.pc = "done" =>
                    /\ run.outcome.kind = "thrown"
                    /\ IF "chainId" \in run.failed
                         THEN /\ run.outcome = Threw(chainIdPromise.error)
                              /\ Undefined \notin { run.from, run.gasPrice,
                                                     run.gasLimit, run.nonce }
                         ELSE run.failed \cap { "gasPrice", "gasLimit", "nonce" } # { })

\* The chain id query failed, and an executeTransaction and a
\* submitTransaction, each having asked the node for its nonce, ended in
\* the error of that query.
C25_Witness ==
  /\ options.chainId = Undefined
  /\ chainIdPromise.state = "rejected"
  /\ chainIdQueries = 1
  /\ signing[1].kind = "executeTransaction"
  /\ \A t \in Txs :
       /\ signing[t].pc = "done"
       /\ signing[t].failed = { "chainId" }
       /\ signing[t].outcome = Threw(chainIdPromise.error)
       /\ Sent(signing[t], "eth_getTransactionCount") # { }

\* The runs that leave the nonce to the node.
NonceFromNode == { run \in Executing : ~Truthy(run.input.nonce) /\ run.nonce # Undefined }

\* C26: the client does not hand out nonces itself.  A run that leaves
\* the nonce to the node is never held back at that point by another run,
\* and what it signs is the count of the node as it is: two runs of one
\* sender that both have their nonce while the node has accepted no
\* transaction of the sender from this client have the same nonce.
C26_NonceNotSerialized ==
  /\ \A t \in Txs : signing[t].pc = "nonce" => ENABLED AssembleNonce(t)
  /\ \A run \in NonceFromNode :
       /\ run.result # NoResult => run.result.decodedTransaction.nonce = run.nonce
       /\ \A other \in NonceFromNode :
            (/\ other.from = run.from
             /\ \A any \in Runs : any.from = run.from => any.transactionHash = Undefined)
            => other.nonce = run.nonce

\* Two transactions of one sender, both with the nonce 4 the node gave,
\* both signed, both submitted and accepted.
C26_Witness ==
  /\ signing[1].from = signing[2].from
  /\ \A t \in Txs :
       /\ signing[t] \in NonceFromNode
       /\ Cardinality(Sent(signing[t], "eth_getTransactionCount")) = 1
       /\ signing[t].result # NoResult
       /\ signing[t].result.decodedTransaction.nonce = 4
       /\ Cardinality(Sent(signing[t], "eth_sendRawTransaction")) = 1
       /\ signing[t].transactionHash # Undefined

=============================================================================
